---- MODULE Spec2Model ----
(***************************************************************************)
(* Budget Intelligence Index (BII) calculator, src/bii_calculator.py.      *)
(*                                                                         *)
(* The calculator is a set of pure static scorers, one per layer, a        *)
(* weighted aggregation and a letter grader.  Python floats are modelled   *)
(* as exact rationals [n |-> numerator, d |-> denominator], kept in lowest *)
(* terms with d > 0, so that the piecewise formulas, the clamps, the       *)
(* threshold comparisons and the one-decimal rounding are computed as the  *)
(* code computes them, up to the last-bit error of binary floating point.  *)
(***************************************************************************)
EXTENDS Integers, Sequences, FiniteSets, TLC

------------------------------------------------------------------------------
(* Rational arithmetic standing for Python's float operators.              *)

Abs(x) == IF x < 0 THEN -x ELSE x

RECURSIVE GCD(_, _)
GCD(a, b) == IF b = 0 THEN a ELSE GCD(b, a % b)

\* The number n/d (d # 0) in lowest terms with a positive denominator.
R(n, d) ==
    LET g == GCD(Abs(n), Abs(d))
        s == IF d < 0 THEN -1 ELSE 1
    IN  [n |-> s * (n \div g), d |-> s * (d \div g)]

\* An int or float literal with no fractional part.
I(k) == [n |-> k, d |-> 1]

Zero == I(0)
Ten == I(10)

\* The outcome of evaluating x / 0: Python raises ZeroDivisionError, which
\* propagates out of the scorer and out of calculate_bii.  It is no number.
ZeroDivisionError == [n |-> 1, d |-> 0]

Raised(x) == x = ZeroDivisionError

Add(a, b) ==
    LET l == (a.d \div GCD(a.d, b.d)) * b.d
    IN  R(a.n * (l \div a.d) + b.n * (l \div b.d), l)

Neg(a) == [n |-> -a.n, d |-> a.d]

Sub(a, b) == Add(a, Neg(b))

Mul(a, b) ==
    LET g1 == GCD(Abs(a.n), b.d)
        g2 == GCD(Abs(b.n), a.d)
    IN  R((a.n \div g1) * (b.n \div g2), (a.d \div g2) * (b.d \div g1))

\* Python's a / b on floats.
Div(a, b) ==
    IF b.n = 0 THEN ZeroDivisionError
    ELSE Mul(a, R(b.d, b.n))

Lt(a, b) == a.n * b.d < b.n * a.d
Le(a, b) == a.n * b.d <= b.n * a.d
Ge(a, b) == Le(b, a)
Gt(a, b) == Lt(b, a)

\* Python's builtin min and max of two numbers.
PyMin(a, b) == IF Lt(b, a) THEN b ELSE a
PyMax(a, b) == IF Gt(b, a) THEN b ELSE a

\* A scorer that returns its score as computed, the clamp forgotten.
ClampUnclamped(score) == score

\* max(0.0, min(10.0, score)): the last line of every scorer.
Clamp(score) == PyMax(Zero, PyMin(Ten, score))

\* round(x, 1): the nearest multiple of 1/10, a tie going to the even one.
Round1(x) ==
    LET t == x.n * 10
        q == t \div x.d
        r == t % x.d
        k == IF 2 * r < x.d THEN q
             ELSE IF 2 * r > x.d THEN q + 1
             ELSE IF q % 2 = 0 THEN q ELSE q + 1
    IN  R(k, 10)

------------------------------------------------------------------------------
(* The constant weight table.                                              *)

LAYER_WEIGHTS ==
    [ fiscal_transparency    |-> R(12, 100),
      revenue_stability      |-> R(14, 100),
      debt_health            |-> R(15, 100),
      expenditure_efficiency |-> R(13, 100),
      private_sector         |-> R(11, 100),
      trade_integration      |-> R(10, 100),
      climate_resilience     |-> R(8, 100),
      digital_readiness      |-> R(9, 100),
      human_impact           |-> R(8, 100) ]

------------------------------------------------------------------------------
(* Layer 1: fiscal transparency.                                           *)

\* The scorer with a penalty of one point per year and no cap.
calculate_layer1_uncapped(budget_on_time, audit_delay_years) ==
    LET baseline == I(5)
        score1 == IF budget_on_time THEN Add(baseline, I(5)) ELSE baseline
        audit_penalty == Mul(I(audit_delay_years), I(1))
    IN  Clamp(Sub(score1, audit_penalty))

calculate_layer1_fiscal_transparency(budget_on_time, audit_delay_years) ==
    LET baseline == I(5)
        score1 == IF budget_on_time THEN Add(baseline, I(5)) ELSE baseline
        audit_penalty == PyMin(Mul(I(audit_delay_years), I(1)), I(4))
    IN  Clamp(Sub(score1, audit_penalty))

------------------------------------------------------------------------------
(* Layer 2: revenue stability.                                             *)

\* The three summands of the parenthesis, in the order of the source.
layer2_contributions(non_oil_percent, tax_base_score, collection_efficiency) ==
    << Mul(Div(non_oil_percent, I(100)), I(6)),
       Mul(Div(tax_base_score, I(10)), I(3)),
       Mul(Div(collection_efficiency, I(10)), I(1)) >>

\* score, before the clamp: the sum of the three summands, times 10.
layer2_score(non_oil_percent, tax_base_score, collection_efficiency) ==
    LET c == layer2_contributions(non_oil_percent, tax_base_score,
                                  collection_efficiency)
    IN  Mul(Add(Add(c[1], c[2]), c[3]), I(10))

calculate_layer2_revenue_stability(non_oil_percent, tax_base_score, collection_efficiency) ==
    Clamp(layer2_score(non_oil_percent, tax_base_score, collection_efficiency))

------------------------------------------------------------------------------
(* Layer 3: public debt health.                                            *)

\* The chain with the third segment falling by 3, so that it meets 2.0 at 85.
base_score_continuous(debt_to_gdp) ==
    IF Lt(debt_to_gdp, I(60)) THEN I(9)
    ELSE IF Lt(debt_to_gdp, I(75))
         THEN Sub(I(7), Mul(Div(Sub(debt_to_gdp, I(60)), I(15)), I(2)))
    ELSE IF Lt(debt_to_gdp, I(85))
         THEN Sub(I(5), Mul(Div(Sub(debt_to_gdp, I(75)), I(10)), I(3)))
    ELSE Sub(I(2), Mul(Div(Sub(debt_to_gdp, I(85)), I(15)), I(2)))

\* The chain with the last segment starting at 4.0, above the end of the third.
base_score_rising(debt_to_gdp) ==
    IF Lt(debt_to_gdp, I(60)) THEN I(9)
    ELSE IF Lt(debt_to_gdp, I(75))
         THEN Sub(I(7), Mul(Div(Sub(debt_to_gdp, I(60)), I(15)), I(2)))
    ELSE IF Lt(debt_to_gdp, I(85))
         THEN Sub(I(5), Mul(Div(Sub(debt_to_gdp, I(75)), I(10)), I(2)))
    ELSE Sub(I(4), Mul(Div(Sub(debt_to_gdp, I(85)), I(15)), I(2)))

\* base_score as set by the if/elif chain on debt_to_gdp.
base_score(debt_to_gdp) ==
    IF Lt(debt_to_gdp, I(60)) THEN I(9)
    ELSE IF Lt(debt_to_gdp, I(75))
         THEN Sub(I(7), Mul(Div(Sub(debt_to_gdp, I(60)), I(15)), I(2)))
    ELSE IF Lt(debt_to_gdp, I(85))
         THEN Sub(I(5), Mul(Div(Sub(debt_to_gdp, I(75)), I(10)), I(2)))
    ELSE Sub(I(2), Mul(Div(Sub(debt_to_gdp, I(85)), I(15)), I(2)))

\* base_score after the debt-service adjustment.
debt_service_adjusted(score, debt_service_to_revenue) ==
    IF Lt(debt_service_to_revenue, I(15)) THEN Add(score, I(1))
    ELSE IF Gt(debt_service_to_revenue, I(20)) THEN Sub(score, I(1))
    ELSE score

\* The dict literal of the trend adjustments.
TrendTable == [improving |-> I(1), stable |-> I(0), declining |-> I(-1)]

\* The lookup with an unrecognized trend penalised like "declining".
trend_adjustment_strict(fiscal_balance_trend) ==
    IF fiscal_balance_trend \in DOMAIN TrendTable
    THEN TrendTable[fiscal_balance_trend]
    ELSE I(-1)

\* {...}.get(fiscal_balance_trend, 0.0)
trend_adjustment(fiscal_balance_trend) ==
    IF fiscal_balance_trend \in DOMAIN TrendTable
    THEN TrendTable[fiscal_balance_trend]
    ELSE I(0)

\* The scorer with the base score floored at 0 before the adjustments.
calculate_layer3_floored_base(debt_to_gdp, debt_service_to_revenue, fiscal_balance_trend) ==
    Clamp(Add(debt_service_adjusted(PyMax(I(0), base_score(debt_to_gdp)),
                                    debt_service_to_revenue),
              trend_adjustment(fiscal_balance_trend)))

calculate_layer3_debt_health(debt_to_gdp, debt_service_to_revenue, fiscal_balance_trend) ==
    Clamp(Add(debt_service_adjusted(base_score(debt_to_gdp),
                                    debt_service_to_revenue),
              trend_adjustment(fiscal_balance_trend)))

------------------------------------------------------------------------------
(* Layer 4: expenditure efficiency.                                        *)

\* The scorer without its test for a zero consumption_percent.
calculate_layer4_unguarded(productive_percent, consumption_percent) ==
    LET ratio == Div(productive_percent, consumption_percent)
    IN  IF Raised(ratio) THEN ratio ELSE Clamp(Mul(ratio, I(5)))

\* The division is reached with consumption_percent # 0 only.
calculate_layer4_expenditure_efficiency(productive_percent, consumption_percent) ==
    IF consumption_percent = Zero THEN Zero
    ELSE LET ratio == Div(productive_percent, consumption_percent)
         IN  IF Raised(ratio) THEN ratio ELSE Clamp(Mul(ratio, I(5)))

------------------------------------------------------------------------------
(* Layer 5: private sector climate.                                        *)

calculate_layer5_private_sector(ease_of_business_rank, sme_delivery_rate, forex_access) ==
    LET eob_score == IF ease_of_business_rank <= 50 THEN I(4)
                     ELSE IF ease_of_business_rank <= 100 THEN I(3)
                     ELSE IF ease_of_business_rank <= 150 THEN I(2)
                     ELSE I(1)
        sme_score == PyMin(Div(sme_delivery_rate, I(25)), I(4))
        forex_score == PyMin(Div(forex_access, I(5)), I(2))
    IN  Clamp(Add(Add(eob_score, sme_score), forex_score))

------------------------------------------------------------------------------
(* Layer 6: trade and integration.                                         *)

calculate_layer6_trade_integration(export_growth, caricom_integration, diversification_index) ==
    LET growth_score ==
            IF Ge(export_growth, I(10)) THEN I(4)
            ELSE IF Ge(export_growth, I(5))
                 THEN Add(I(2), Mul(Div(Sub(export_growth, I(5)), I(5)), I(2)))
            ELSE IF Ge(export_growth, I(0))
                 THEN Mul(Div(export_growth, I(5)), I(2))
            ELSE I(0)
        caricom_score == PyMin(Div(caricom_integration, R(333, 100)), I(3))
        div_score == Mul(Sub(I(1), diversification_index), I(3))
    IN  Clamp(Add(Add(growth_score, caricom_score), div_score))

------------------------------------------------------------------------------
(* Layer 7: climate and resilience.                                        *)

\* The chain with the lowest segment not divided by 0.5: it tends to 0.5 at
\* the breakpoint 0.5, where the next segment starts at 1.0.
budget_score_jump(climate_budget_gdp) ==
    IF Ge(climate_budget_gdp, I(2)) THEN I(4)
    ELSE IF Ge(climate_budget_gdp, I(1))
         THEN Add(I(2), Mul(Sub(climate_budget_gdp, I(1)), I(2)))
    ELSE IF Ge(climate_budget_gdp, R(1, 2))
         THEN Add(I(1), Mul(Sub(climate_budget_gdp, R(1, 2)), I(2)))
    ELSE climate_budget_gdp

\* budget_score as set by the if/elif chain on climate_budget_gdp.
budget_score(climate_budget_gdp) ==
    IF Ge(climate_budget_gdp, I(2)) THEN I(4)
    ELSE IF Ge(climate_budget_gdp, I(1))
         THEN Add(I(2), Mul(Sub(climate_budget_gdp, I(1)), I(2)))
    ELSE IF Ge(climate_budget_gdp, R(1, 2))
         THEN Add(I(1), Mul(Sub(climate_budget_gdp, R(1, 2)), I(2)))
    ELSE Div(climate_budget_gdp, R(1, 2))

calculate_layer7_climate_resilience(climate_budget_gdp, projects_count, adaptation_funding) ==
    LET projects_score == IF projects_count >= 10 THEN I(3)
                          ELSE IF projects_count >= 5 THEN I(2)
                          ELSE IF projects_count >= 1 THEN I(1)
                          ELSE I(0)
        adaptation_score == PyMin(Div(adaptation_funding, R(333, 100)), I(3))
    IN  Clamp(Add(Add(budget_score(climate_budget_gdp), projects_score),
                  adaptation_score))

------------------------------------------------------------------------------
(* Layer 8: digital readiness.                                             *)

calculate_layer8_digital_readiness(ict_budget_percent, egov_adoption, digital_literacy) ==
    LET ict_score ==
            IF Ge(ict_budget_percent, I(2)) THEN I(3)
            ELSE IF Ge(ict_budget_percent, I(1))
                 THEN Add(I(2), Sub(ict_budget_percent, I(1)))
            ELSE IF Ge(ict_budget_percent, R(1, 2))
                 THEN Add(I(1), Mul(Sub(ict_budget_percent, R(1, 2)), I(2)))
            ELSE Div(ict_budget_percent, R(1, 2))
        egov_score ==
            IF Ge(egov_adoption, I(50)) THEN I(4)
            ELSE IF Ge(egov_adoption, I(25))
                 THEN Add(I(2), Mul(Div(Sub(egov_adoption, I(25)), I(25)), I(2)))
            ELSE Mul(Div(egov_adoption, I(25)), I(2))
        literacy_score == PyMin(Div(digital_literacy, R(333, 100)), I(3))
    IN  Clamp(Add(Add(ict_score, egov_score), literacy_score))

------------------------------------------------------------------------------
(* Layer 9: human impact.                                                  *)

calculate_layer9_human_impact(inflation, unemployment, real_wage_growth, food_security) ==
    LET inflation_score == IF Lt(inflation, I(2)) THEN I(3)
                           ELSE IF Lt(inflation, I(4)) THEN I(2)
                           ELSE IF Lt(inflation, I(6)) THEN I(1)
                           ELSE I(0)
        unemp_score == IF Lt(unemployment, I(4)) THEN I(3)
                       ELSE IF Lt(unemployment, I(6)) THEN I(2)
                       ELSE IF Lt(unemployment, I(8)) THEN I(1)
                       ELSE I(0)
        wage_score == IF Gt(real_wage_growth, I(2)) THEN I(2)
                      ELSE IF Gt(real_wage_growth, I(0)) THEN I(1)
                      ELSE I(0)
        food_score == PyMin(Div(food_security, I(5)), I(2))
    IN  Clamp(Add(Add(Add(inflation_score, unemp_score), wage_score),
                  food_score))

------------------------------------------------------------------------------
(* The grader and the weighted aggregation of calculate_bii.               *)

\* The ladder with strict comparisons: a score equal to a threshold falls
\* into the grade below.
_calculate_grade_exclusive(score) ==
    IF Gt(score, R(95, 10)) THEN "A+"
    ELSE IF Gt(score, I(9)) THEN "A"
    ELSE IF Gt(score, R(85, 10)) THEN "A-"
    ELSE IF Gt(score, I(8)) THEN "B+"
    ELSE IF Gt(score, I(7)) THEN "B"
    ELSE IF Gt(score, R(65, 10)) THEN "B-"
    ELSE IF Gt(score, I(6)) THEN "C+"
    ELSE IF Gt(score, I(5)) THEN "C"
    ELSE IF Gt(score, R(45, 10)) THEN "C-"
    ELSE IF Gt(score, I(4)) THEN "D+"
    ELSE IF Gt(score, I(3)) THEN "D"
    ELSE IF Gt(score, I(2)) THEN "D-"
    ELSE "F"

\* The ladder of _calculate_grade, top down.
_calculate_grade(score) ==
    IF Ge(score, R(95, 10)) THEN "A+"
    ELSE IF Ge(score, I(9)) THEN "A"
    ELSE IF Ge(score, R(85, 10)) THEN "A-"
    ELSE IF Ge(score, I(8)) THEN "B+"
    ELSE IF Ge(score, I(7)) THEN "B"
    ELSE IF Ge(score, R(65, 10)) THEN "B-"
    ELSE IF Ge(score, I(6)) THEN "C+"
    ELSE IF Ge(score, I(5)) THEN "C"
    ELSE IF Ge(score, R(45, 10)) THEN "C-"
    ELSE IF Ge(score, I(4)) THEN "D+"
    ELSE IF Ge(score, I(3)) THEN "D"
    ELSE IF Ge(score, I(2)) THEN "D-"
    ELSE "F"

\* The sum with the weights of layers 2 and 3 exchanged.
weighted_overall_swapped(l1, l2, l3, l4, l5, l6, l7, l8, l9) ==
    Add(Add(Add(Add(Add(Add(Add(Add(
        Mul(l1, LAYER_WEIGHTS.fiscal_transparency),
        Mul(l2, LAYER_WEIGHTS.debt_health)),
        Mul(l3, LAYER_WEIGHTS.revenue_stability)),
        Mul(l4, LAYER_WEIGHTS.expenditure_efficiency)),
        Mul(l5, LAYER_WEIGHTS.private_sector)),
        Mul(l6, LAYER_WEIGHTS.trade_integration)),
        Mul(l7, LAYER_WEIGHTS.climate_resilience)),
        Mul(l8, LAYER_WEIGHTS.digital_readiness)),
        Mul(l9, LAYER_WEIGHTS.human_impact))

\* bii_overall: nine products, summed left to right.
weighted_overall(l1, l2, l3, l4, l5, l6, l7, l8, l9) ==
    Add(Add(Add(Add(Add(Add(Add(Add(
        Mul(l1, LAYER_WEIGHTS.fiscal_transparency),
        Mul(l2, LAYER_WEIGHTS.revenue_stability)),
        Mul(l3, LAYER_WEIGHTS.debt_health)),
        Mul(l4, LAYER_WEIGHTS.expenditure_efficiency)),
        Mul(l5, LAYER_WEIGHTS.private_sector)),
        Mul(l6, LAYER_WEIGHTS.trade_integration)),
        Mul(l7, LAYER_WEIGHTS.climate_resilience)),
        Mul(l8, LAYER_WEIGHTS.digital_readiness)),
        Mul(l9, LAYER_WEIGHTS.human_impact))

------------------------------------------------------------------------------
(* Bounds of the model and the input records explored.                     *)

\* How far outside the documented scales the explored inputs go.
Extreme == 500

\* Decimal literals: k tenths, k hundredths.
D1(k) == R(k, 10)
D2(k) == R(k, 100)

\* For each layer, the argument tuples explored: the values of the example
\* run of the source (with an audit delay of 1 year for its 2, and layer
\* 4's 25.4/50.3 as 25/50), then values far below and far above the
\* documented scales.
Layer1Inputs == { <<TRUE, 1>>, <<FALSE, Extreme>>, <<TRUE, -3>> }
Layer2Inputs ==
    { <<I(78), I(5), I(5)>>, <<I(-Extreme), I(0), I(-1)>>,
      <<I(Extreme), I(20), I(20)>> }
Layer3Inputs ==
    { <<D1(818), D1(206), "declining">>, <<I(-Extreme), I(10), "improving">>,
      <<I(Extreme), I(25), "unknown">> }
Layer4Inputs ==
    { <<I(25), I(50)>>, <<I(-5), I(0)>>, <<I(Extreme), I(0)>>,
      <<I(Extreme), I(3)>>, <<I(10), I(-Extreme)>> }
Layer5Inputs ==
    { <<105, I(28), I(4)>>, <<Extreme, I(-Extreme), I(-Extreme)>>,
      <<-10, I(Extreme), I(Extreme)>> }
Layer6Inputs ==
    { <<I(-6), D1(52), D2(78)>>, <<I(-Extreme), I(-Extreme), I(Extreme)>>,
      <<I(Extreme), I(Extreme), I(-4)>> }
Layer7Inputs ==
    { <<D2(18), 5, D1(36)>>, <<I(-Extreme), -1, I(-Extreme)>>,
      <<I(Extreme), Extreme, I(Extreme)>> }
Layer8Inputs ==
    { <<D1(9), I(32), D1(51)>>, <<I(-Extreme), I(-Extreme), I(-Extreme)>>,
      <<I(Extreme), I(Extreme), I(Extreme)>> }
Layer9Inputs ==
    { <<D1(3), D1(42), D1(-5), D1(54)>>,
      <<I(Extreme), I(Extreme), I(-Extreme), I(-Extreme)>>,
      <<I(-Extreme), I(-Extreme), I(Extreme), I(Extreme)>> }

\* The dataclass LayerInputs.
LayerInputs(a1, a2, a3, a4, a5, a6, a7, a8, a9) ==
    [ budget_on_time               |-> a1[1],
      audit_delay_years            |-> a1[2],
      non_oil_revenue_percent      |-> a2[1],
      tax_base_breadth_score       |-> a2[2],
      collection_efficiency        |-> a2[3],
      debt_to_gdp                  |-> a3[1],
      debt_service_to_revenue      |-> a3[2],
      fiscal_balance_trend         |-> a3[3],
      productive_spending_percent  |-> a4[1],
      consumption_spending_percent |-> a4[2],
      ease_of_business_rank        |-> a5[1],
      sme_support_delivery_rate    |-> a5[2],
      forex_access_score           |-> a5[3],
      non_oil_exports_growth       |-> a6[1],
      caricom_integration_score    |-> a6[2],
      export_diversification_index |-> a6[3],
      climate_budget_gdp_percent   |-> a7[1],
      green_projects_count         |-> a7[2],
      adaptation_funding_score     |-> a7[3],
      ict_budget_percent           |-> a8[1],
      egov_adoption_percent        |-> a8[2],
      digital_literacy_score       |-> a8[3],
      inflation_rate               |-> a9[1],
      unemployment_rate            |-> a9[2],
      real_wage_growth             |-> a9[3],
      food_security_score          |-> a9[4] ]

InputRecords ==
    { LayerInputs(a1, a2, a3, a4, a5, a6, a7, a8, a9) :
        a1 \in Layer1Inputs, a2 \in Layer2Inputs, a3 \in Layer3Inputs,
        a4 \in Layer4Inputs, a5 \in Layer5Inputs, a6 \in Layer6Inputs,
        a7 \in Layer7Inputs, a8 \in Layer8Inputs, a9 \in Layer9Inputs }

------------------------------------------------------------------------------
(* State.                                                                  *)

VARIABLES
    inputs,       \* the LayerInputs record calculate_bii was called with
    pc,           \* the statement of calculate_bii about to run
    layer1, layer2, layer3, layer4, layer5, layer6, layer7, layer8, layer9,
    bii_overall,  \* locals of calculate_bii
    grade,
    result,       \* the dictionary calculate_bii returns
    pending,      \* the argument tuples of the direct scorer calls to make
    call,         \* the latest direct call of a static scorer, with its locals
    last          \* the direct call before it

biiVars == << inputs, pc, layer1, layer2, layer3, layer4, layer5, layer6,
              layer7, layer8, layer9, bii_overall, grade, result >>
directVars == << pending, call, last >>
vars == << inputs, pc, layer1, layer2, layer3, layer4, layer5, layer6,
           layer7, layer8, layer9, bii_overall, grade, result, pending, call, last >>

\* A local not assigned yet.
Unset == [n |-> 0, d |-> 0]

NoResult ==
    [ layer1_fiscal_transparency    |-> Unset,
      layer2_revenue_stability      |-> Unset,
      layer3_debt_health            |-> Unset,
      layer4_expenditure_efficiency |-> Unset,
      layer5_private_sector         |-> Unset,
      layer6_trade_integration      |-> Unset,
      layer7_climate_resilience     |-> Unset,
      layer8_digital_readiness      |-> Unset,
      layer9_human_impact           |-> Unset,
      bii_overall                   |-> Unset,
      bii_grade                     |-> "" ]

NoCall == [fn |-> "none"]

------------------------------------------------------------------------------
(* calculate_bii, statement by statement.                                  *)

Init ==
    /\ inputs \in InputRecords
    /\ pc = "layer1"
    /\ layer1 = Unset /\ layer2 = Unset /\ layer3 = Unset
    /\ layer4 = Unset /\ layer5 = Unset /\ layer6 = Unset
    /\ layer7 = Unset /\ layer8 = Unset /\ layer9 = Unset
    /\ bii_overall = Unset
    /\ grade = ""
    /\ result = NoResult
    /\ pending = << >>
    /\ call = NoCall
    /\ last = NoCall

Layer1 ==
    /\ pc = "layer1"
    /\ layer1' = calculate_layer1_fiscal_transparency(
                     inputs.budget_on_time, inputs.audit_delay_years)
    /\ pc' = "layer2"
    /\ UNCHANGED << inputs, layer2, layer3, layer4, layer5, layer6, layer7,
                    layer8, layer9, bii_overall, grade, result, pending, call, last >>

Layer2 ==
    /\ pc = "layer2"
    /\ layer2' = calculate_layer2_revenue_stability(
                     inputs.non_oil_revenue_percent,
                     inputs.tax_base_breadth_score,
                     inputs.collection_efficiency)
    /\ pc' = "layer3"
    /\ UNCHANGED << inputs, layer1, layer3, layer4, layer5, layer6, layer7,
                    layer8, layer9, bii_overall, grade, result, pending, call, last >>

Layer3 ==
    /\ pc = "layer3"
    /\ layer3' = calculate_layer3_debt_health(
                     inputs.debt_to_gdp, inputs.debt_service_to_revenue,
                     inputs.fiscal_balance_trend)
    /\ pc' = "layer4"
    /\ UNCHANGED << inputs, layer1, layer2, layer4, layer5, layer6, layer7,
                    layer8, layer9, bii_overall, grade, result, pending, call, last >>

\* The only scorer that divides by an input: an exception it raised would
\* leave calculate_bii at once, with no result.
Layer4 ==
    /\ pc = "layer4"
    /\ LET v == calculate_layer4_expenditure_efficiency(
                    inputs.productive_spending_percent,
                    inputs.consumption_spending_percent)
       IN  /\ layer4' = v
           /\ pc' = IF Raised(v) THEN "raised" ELSE "layer5"
    /\ UNCHANGED << inputs, layer1, layer2, layer3, layer5, layer6, layer7,
                    layer8, layer9, bii_overall, grade, result, pending, call, last >>

\* The statement of layer 5 reading layer 4's score in place of its own
\* third argument.
Layer5ReadingLayer4 ==
    /\ pc = "layer5"
    /\ layer5' = calculate_layer5_private_sector(
                     inputs.ease_of_business_rank,
                     inputs.sme_support_delivery_rate, layer4)
    /\ pc' = "layer6"
    /\ UNCHANGED << inputs, layer1, layer2, layer3, layer4, layer6, layer7,
                    layer8, layer9, bii_overall, grade, result, pending, call, last >>

Layer5 ==
    /\ pc = "layer5"
    /\ layer5' = calculate_layer5_private_sector(
                     inputs.ease_of_business_rank,
                     inputs.sme_support_delivery_rate,
                     inputs.forex_access_score)
    /\ pc' = "layer6"
    /\ UNCHANGED << inputs, layer1, layer2, layer3, layer4, layer6, layer7,
                    layer8, layer9, bii_overall, grade, result, pending, call, last >>

Layer6 ==
    /\ pc = "layer6"
    /\ layer6' = calculate_layer6_trade_integration(
                     inputs.non_oil_exports_growth,
                     inputs.caricom_integration_score,
                     inputs.export_diversification_index)
    /\ pc' = "layer7"
    /\ UNCHANGED << inputs, layer1, layer2, layer3, layer4, layer5, layer7,
                    layer8, layer9, bii_overall, grade, result, pending, call, last >>

Layer7 ==
    /\ pc = "layer7"
    /\ layer7' = calculate_layer7_climate_resilience(
                     inputs.climate_budget_gdp_percent,
                     inputs.green_projects_count,
                     inputs.adaptation_funding_score)
    /\ pc' = "layer8"
    /\ UNCHANGED << inputs, layer1, layer2, layer3, layer4, layer5, layer6,
                    layer8, layer9, bii_overall, grade, result, pending, call, last >>

Layer8 ==
    /\ pc = "layer8"
    /\ layer8' = calculate_layer8_digital_readiness(
                     inputs.ict_budget_percent,
                     inputs.egov_adoption_percent,
                     inputs.digital_literacy_score)
    /\ pc' = "layer9"
    /\ UNCHANGED << inputs, layer1, layer2, layer3, layer4, layer5, layer6,
                    layer7, layer9, bii_overall, grade, result, pending, call, last >>

Layer9 ==
    /\ pc = "layer9"
    /\ layer9' = calculate_layer9_human_impact(
                     inputs.inflation_rate, inputs.unemployment_rate,
                     inputs.real_wage_growth, inputs.food_security_score)
    /\ pc' = "overall"
    /\ UNCHANGED << inputs, layer1, layer2, layer3, layer4, layer5, layer6,
                    layer7, layer8, bii_overall, grade, result, pending, call, last >>

\* The aggregation keeping a running total across calls: the composite of
\* the call before is added to this call's.
OverallCarried ==
    /\ pc = "overall"
    /\ LET sum == weighted_overall(layer1, layer2, layer3, layer4, layer5,
                                   layer6, layer7, layer8, layer9)
       IN  bii_overall' = IF last.fn = "calculate_bii" /\ last.pc = "done"
                          THEN Add(sum, last.ret.bii_overall)
                          ELSE sum
    /\ pc' = "grade"
    /\ UNCHANGED << inputs, layer1, layer2, layer3, layer4, layer5, layer6,
                    layer7, layer8, layer9, grade, result, pending, call, last >>

Overall ==
    /\ pc = "overall"
    /\ bii_overall' = weighted_overall(layer1, layer2, layer3, layer4, layer5,
                                       layer6, layer7, layer8, layer9)
    /\ pc' = "grade"
    /\ UNCHANGED << inputs, layer1, layer2, layer3, layer4, layer5, layer6,
                    layer7, layer8, layer9, grade, result, pending, call, last >>

Grade ==
    /\ pc = "grade"
    /\ grade' = _calculate_grade(bii_overall)
    /\ pc' = "return"
    /\ UNCHANGED << inputs, layer1, layer2, layer3, layer4, layer5, layer6,
                    layer7, layer8, layer9, bii_overall, result, pending, call, last >>

\* The dictionary literal of the return statement.
result_record(l1, l2, l3, l4, l5, l6, l7, l8, l9, overall, g) ==
    [ layer1_fiscal_transparency    |-> Round1(l1),
      layer2_revenue_stability      |-> Round1(l2),
      layer3_debt_health            |-> Round1(l3),
      layer4_expenditure_efficiency |-> Round1(l4),
      layer5_private_sector         |-> Round1(l5),
      layer6_trade_integration      |-> Round1(l6),
      layer7_climate_resilience     |-> Round1(l7),
      layer8_digital_readiness      |-> Round1(l8),
      layer9_human_impact           |-> Round1(l9),
      bii_overall                   |-> Round1(overall),
      bii_grade                     |-> g ]

Return ==
    /\ pc = "return"
    /\ result' = result_record(layer1, layer2, layer3, layer4, layer5, layer6,
                               layer7, layer8, layer9, bii_overall, grade)
    /\ pc' = "done"
    /\ UNCHANGED << inputs, layer1, layer2, layer3, layer4, layer5, layer6,
                    layer7, layer8, layer9, bii_overall, grade, pending, call, last >>

Next ==
    \/ Layer1 \/ Layer2 \/ Layer3 \/ Layer4 \/ Layer5 \/ Layer6
    \/ Layer7 \/ Layer8 \/ Layer9 \/ Overall \/ Grade \/ Return

Spec == Init /\ [][Next]_vars

------------------------------------------------------------------------------
(* Direct calls of the static scorers.  pending holds the argument tuples  *)
(* of two calls to make, one after the other; call records the arguments,  *)
(* the locals of interest and the returned value of the latest call; last  *)
(* is the call made before it, so that the two calls can be compared.      *)

NoInputs == << >>

\* calculate_bii is not running.
Idle ==
    /\ inputs = NoInputs
    /\ pc = "idle"
    /\ layer1 = Unset /\ layer2 = Unset /\ layer3 = Unset
    /\ layer4 = Unset /\ layer5 = Unset /\ layer6 = Unset
    /\ layer7 = Unset /\ layer8 = Unset /\ layer9 = Unset
    /\ bii_overall = Unset
    /\ grade = ""
    /\ result = NoResult

InitDirect(Args) ==
    /\ Idle
    /\ pending \in { <<a, b>> : a \in Args, b \in Args }
    /\ call = NoCall
    /\ last = NoCall

\* Layer 1: both values of budget_on_time, audit_delay_years from -3 up
\* to twice the cap of the penalty and beyond.
MaxAuditDelay == 9
Layer1Args ==
    { <<b, y>> : b \in BOOLEAN, y \in -3..MaxAuditDelay }

CallLayer1 ==
    /\ pending # << >>
    /\ LET a == Head(pending)
       IN  call' = [ fn                |-> "layer1",
                     budget_on_time    |-> a[1],
                     audit_delay_years |-> a[2],
                     ret |-> calculate_layer1_fiscal_transparency(a[1], a[2]) ]
    /\ last' = call
    /\ pending' = Tail(pending)
    /\ UNCHANGED biiVars

SpecLayer1 == InitDirect(Layer1Args) /\ [][CallLayer1]_vars

\* Layer 2 over its documented ranges: the share in steps of 10 percent,
\* the two scores at 0, 5 and 10.
MaxShareSteps == 10
Layer2Args ==
    { <<I(10 * k), t, e>> :
        k \in 0..MaxShareSteps, t \in {I(0), I(5), I(10)},
        e \in {I(0), I(5), I(10)} }

CallLayer2 ==
    /\ pending # << >>
    /\ LET a == Head(pending)
       IN  call' = [ fn                    |-> "layer2",
                     non_oil_percent       |-> a[1],
                     tax_base_score        |-> a[2],
                     collection_efficiency |-> a[3],
                     contributions |-> layer2_contributions(a[1], a[2], a[3]),
                     score         |-> layer2_score(a[1], a[2], a[3]),
                     ret |-> calculate_layer2_revenue_stability(
                                 a[1], a[2], a[3]) ]
    /\ last' = call
    /\ pending' = Tail(pending)
    /\ UNCHANGED biiVars

SpecLayer2 == InitDirect(Layer2Args) /\ [][CallLayer2]_vars

\* Layer 3: debt_to_gdp from 55 upward in steps of 2.5, debt service on
\* both sides of and at 15 and 20, the three trends and an unrecognized one.
MaxDebtSteps == 20
Layer3Args ==
    { <<R(110 + 5 * k, 2), s, t>> :
        k \in 0..MaxDebtSteps, s \in {I(10), I(15), I(20), I(25)},
        t \in {"improving", "stable", "declining", "unknown"} }

CallLayer3 ==
    /\ pending # << >>
    /\ LET a == Head(pending)
       IN  call' = [ fn                      |-> "layer3",
                     debt_to_gdp             |-> a[1],
                     debt_service_to_revenue |-> a[2],
                     fiscal_balance_trend    |-> a[3],
                     base_score              |-> base_score(a[1]),
                     ret |-> calculate_layer3_debt_health(a[1], a[2], a[3]) ]
    /\ last' = call
    /\ pending' = Tail(pending)
    /\ UNCHANGED biiVars

SpecLayer3 == InitDirect(Layer3Args) /\ [][CallLayer3]_vars

\* Layer 7: climate_budget_gdp from -0.5 upward in steps of 0.1.
MaxBudgetTenths == 25
Layer7Args ==
    { <<D1(k), c, f>> :
        k \in -5..MaxBudgetTenths, c \in {0, 5}, f \in {I(0), D1(36)} }

CallLayer7 ==
    /\ pending # << >>
    /\ LET a == Head(pending)
       IN  call' = [ fn                 |-> "layer7",
                     climate_budget_gdp |-> a[1],
                     projects_count     |-> a[2],
                     adaptation_funding |-> a[3],
                     budget_score       |-> budget_score(a[1]),
                     ret |-> calculate_layer7_climate_resilience(
                                 a[1], a[2], a[3]) ]
    /\ last' = call
    /\ pending' = Tail(pending)
    /\ UNCHANGED biiVars

SpecLayer7 == InitDirect(Layer7Args) /\ [][CallLayer7]_vars

\* The grader: scores from -0.5 upward in steps of 0.05.
MaxScoreTwentieths == 210
GradeArgs == { <<R(k, 20)>> : k \in -10..MaxScoreTwentieths }

CallGrade ==
    /\ pending # << >>
    /\ LET a == Head(pending)
       IN  call' = [ fn    |-> "grade",
                     score |-> a[1],
                     ret   |-> _calculate_grade(a[1]) ]
    /\ last' = call
    /\ pending' = Tail(pending)
    /\ UNCHANGED biiVars

SpecGrade == InitDirect(GradeArgs) /\ [][CallGrade]_vars

------------------------------------------------------------------------------
(* Two calls of calculate_bii, one after the other, by a caller that keeps *)
(* what the first returned.  pending holds the records to pass; call is    *)
(* the call in progress or returned, with the record as it was passed;     *)
(* last is the call before it, with what it returned.                      *)

\* In how many layers a record passed may differ from the example run.
MaxChanged == 1

ExampleArgs ==
    << <<TRUE, 1>>, <<I(78), I(5), I(5)>>, <<D1(818), D1(206), "declining">>,
       <<I(25), I(50)>>, <<105, I(28), I(4)>>, <<I(-6), D1(52), D2(78)>>,
       <<D2(18), 5, D1(36)>>, <<D1(9), I(32), D1(51)>>,
       <<D1(3), D1(42), D1(-5), D1(54)>> >>

\* The argument tuples of the nine layers that differ from the example
\* run's in at most MaxChanged layers.
NearExample ==
    { t \in Layer1Inputs \X Layer2Inputs \X Layer3Inputs \X Layer4Inputs
            \X Layer5Inputs \X Layer6Inputs \X Layer7Inputs \X Layer8Inputs
            \X Layer9Inputs :
        Cardinality({ k \in 1..9 : t[k] # ExampleArgs[k] }) <= MaxChanged }

TwiceRecords ==
    { LayerInputs(t[1], t[2], t[3], t[4], t[5], t[6], t[7], t[8], t[9]) :
        t \in NearExample }

\* What the caller holds of a call once calculate_bii has left it.
Returned ==
    IF call.fn = "calculate_bii"
    THEN [ fn |-> "calculate_bii", inputs |-> call.inputs,
           order |-> call.order, reordered |-> call.reordered,
           pc |-> pc, ret |-> result ]
    ELSE call

\* Entry into calculate_bii with the next record: a new frame, every local
\* unassigned.
CallBii ==
    /\ pending # << >>
    /\ pc \in {"idle", "done", "raised"}
    /\ inputs' = Head(pending)
    /\ pending' = Tail(pending)
    /\ last' = Returned
    /\ call' = [ fn |-> "calculate_bii", inputs |-> Head(pending),
                 order |-> "source", reordered |-> FALSE ]
    /\ pc' = "layer1"
    /\ layer1' = Unset /\ layer2' = Unset /\ layer3' = Unset
    /\ layer4' = Unset /\ layer5' = Unset /\ layer6' = Unset
    /\ layer7' = Unset /\ layer8' = Unset /\ layer9' = Unset
    /\ bii_overall' = Unset
    /\ grade' = ""
    /\ result' = NoResult

NextTwice == CallBii \/ Next

SpecTwice == InitDirect(TwiceRecords) /\ [][NextTwice]_vars

------------------------------------------------------------------------------
(* calculate_bii with its nine layer assignments taken in any order: a     *)
(* first call runs them in the order of the source, a second call with the *)
(* same record runs them in an order chosen freely, one at a time.         *)

\* The right-hand side of the assignment to layer k's local.
LayerScore(k, rec) ==
    CASE k = 1 -> calculate_layer1_fiscal_transparency(
                      rec.budget_on_time, rec.audit_delay_years)
      [] k = 2 -> calculate_layer2_revenue_stability(
                      rec.non_oil_revenue_percent, rec.tax_base_breadth_score,
                      rec.collection_efficiency)
      [] k = 3 -> calculate_layer3_debt_health(
                      rec.debt_to_gdp, rec.debt_service_to_revenue,
                      rec.fiscal_balance_trend)
      [] k = 4 -> calculate_layer4_expenditure_efficiency(
                      rec.productive_spending_percent,
                      rec.consumption_spending_percent)
      [] k = 5 -> calculate_layer5_private_sector(
                      rec.ease_of_business_rank, rec.sme_support_delivery_rate,
                      rec.forex_access_score)
      [] k = 6 -> calculate_layer6_trade_integration(
                      rec.non_oil_exports_growth, rec.caricom_integration_score,
                      rec.export_diversification_index)
      [] k = 7 -> calculate_layer7_climate_resilience(
                      rec.climate_budget_gdp_percent, rec.green_projects_count,
                      rec.adaptation_funding_score)
      [] k = 8 -> calculate_layer8_digital_readiness(
                      rec.ict_budget_percent, rec.egov_adoption_percent,
                      rec.digital_literacy_score)
      [] k = 9 -> calculate_layer9_human_impact(
                      rec.inflation_rate, rec.unemployment_rate,
                      rec.real_wage_growth, rec.food_security_score)

\* The locals layer1..layer9 after the assignment of v to layer k's; the
\* aggregation is next once all nine are assigned.
Assigned(k, v) ==
    /\ layer1' = (IF k = 1 THEN v ELSE layer1)
    /\ layer2' = (IF k = 2 THEN v ELSE layer2)
    /\ layer3' = (IF k = 3 THEN v ELSE layer3)
    /\ layer4' = (IF k = 4 THEN v ELSE layer4)
    /\ layer5' = (IF k = 5 THEN v ELSE layer5)
    /\ layer6' = (IF k = 6 THEN v ELSE layer6)
    /\ layer7' = (IF k = 7 THEN v ELSE layer7)
    /\ layer8' = (IF k = 8 THEN v ELSE layer8)
    /\ layer9' = (IF k = 9 THEN v ELSE layer9)
    /\ pc' = IF Raised(v) THEN "raised"
             ELSE IF \A j \in 1..9 :
                        j # k =>
                            << layer1, layer2, layer3, layer4, layer5, layer6,
                               layer7, layer8, layer9 >>[j] # Unset
                  THEN "overall"
             ELSE "scoring"

\* Layer k's assignment is made while one the source makes before it is
\* not made yet.
AssignedEarly(k) ==
    \E j \in 1..9 :
        /\ j < k
        /\ << layer1, layer2, layer3, layer4, layer5, layer6, layer7, layer8,
              layer9 >>[j] = Unset

\* Layer 5's assignment reading layer 4's score, when layer 4 has one, in
\* place of its own third argument.
ScoreAnyChained(k) ==
    /\ pc = "scoring"
    /\ << layer1, layer2, layer3, layer4, layer5, layer6, layer7, layer8,
          layer9 >>[k] = Unset
    /\ Assigned(k, IF k = 5 /\ layer4 # Unset
                   THEN calculate_layer5_private_sector(
                            inputs.ease_of_business_rank,
                            inputs.sme_support_delivery_rate, layer4)
                   ELSE LayerScore(k, inputs))
    /\ call' = [call EXCEPT !.reordered = @ \/ AssignedEarly(k)]
    /\ UNCHANGED << inputs, bii_overall, grade, result, pending, last >>

\* One of the nine assignments not made yet is made; call.reordered keeps
\* whether one was made before an assignment the source makes earlier.
ScoreAny(k) ==
    /\ pc = "scoring"
    /\ << layer1, layer2, layer3, layer4, layer5, layer6, layer7, layer8,
          layer9 >>[k] = Unset
    /\ Assigned(k, LayerScore(k, inputs))
    /\ call' = [call EXCEPT !.reordered = @ \/ AssignedEarly(k)]
    /\ UNCHANGED << inputs, bii_overall, grade, result, pending, last >>

\* Entry into the second call, with the order of the assignments free.
CallBiiAnyOrder ==
    /\ pending # << >>
    /\ pc = "done"
    /\ inputs' = Head(pending)
    /\ pending' = Tail(pending)
    /\ last' = Returned
    /\ call' = [ fn |-> "calculate_bii", inputs |-> Head(pending),
                 order |-> "any", reordered |-> FALSE ]
    /\ pc' = "scoring"
    /\ layer1' = Unset /\ layer2' = Unset /\ layer3' = Unset
    /\ layer4' = Unset /\ layer5' = Unset /\ layer6' = Unset
    /\ layer7' = Unset /\ layer8' = Unset /\ layer9' = Unset
    /\ bii_overall' = Unset
    /\ grade' = ""
    /\ result' = NoResult

\* The same record is passed to both calls.
InitAnyOrder ==
    /\ Idle
    /\ pending \in { <<r, r>> : r \in TwiceRecords }
    /\ call = NoCall
    /\ last = NoCall

NextAnyOrder ==
    \/ CallBii
    \/ CallBiiAnyOrder
    \/ \E k \in 1..9 : ScoreAny(k)
    \/ Next

SpecAnyOrder == InitAnyOrder /\ [][NextAnyOrder]_vars

------------------------------------------------------------------------------
(* Properties of calculate_bii, checked under Spec.                        *)

InRange(x) == x.d > 0 /\ Le(Zero, x) /\ Le(x, Ten)

ScoreKeys ==
    { "layer1_fiscal_transparency", "layer2_revenue_stability",
      "layer3_debt_health", "layer4_expenditure_efficiency",
      "layer5_private_sector", "layer6_trade_integration",
      "layer7_climate_resilience", "layer8_digital_readiness",
      "layer9_human_impact", "bii_overall" }

\* The locals layer1..layer9 of calculate_bii, by layer number.
LayerLocal(k) ==
    CASE k = 1 -> layer1 [] k = 2 -> layer2 [] k = 3 -> layer3
      [] k = 4 -> layer4 [] k = 5 -> layer5 [] k = 6 -> layer6
      [] k = 7 -> layer7 [] k = 8 -> layer8 [] k = 9 -> layer9

\* C1: every layer score, as computed and as returned, and the composite
\* bii_overall, as computed and as returned, lie in [0,10], for inputs in
\* range, negative and far above the documented scales.
C1_ScoresInRange ==
    /\ \A k \in 1..9 : LayerLocal(k) # Unset => InRange(LayerLocal(k))
    /\ bii_overall # Unset => InRange(bii_overall)
    /\ pc = "done" => \A key \in ScoreKeys : InRange(result[key])

\* C1 witness: a call with inputs far below and far above the documented
\* scales has returned, the saturated layers at 0.0 and 10.0.
C1_Witness ==
    /\ pc = "done"
    /\ inputs.non_oil_revenue_percent = I(Extreme)
    /\ inputs.sme_support_delivery_rate = I(-Extreme)
    /\ result.layer2_revenue_stability = Ten
    /\ result.layer5_private_sector = Zero
    /\ InRange(result.bii_overall)

\* C2: the returned grade is the grade the ladder gives to the returned
\* (one-decimal) bii_overall.
C2_GradeOfReportedOverall ==
    pc = "done" => result.bii_grade = _calculate_grade(result.bii_overall)

\* The example run of the source with an audit delay of 1 year returns
\* bii_overall 5.0 with the grade C-, the grade of its unrounded 4.996.
C2_ExampleRun ==
    /\ pc = "done"
    /\ inputs = LayerInputs(<<TRUE, 1>>, <<I(78), I(5), I(5)>>,
                            <<D1(818), D1(206), "declining">>,
                            <<I(25), I(50)>>, <<105, I(28), I(4)>>,
                            <<I(-6), D1(52), D2(78)>>, <<D2(18), 5, D1(36)>>,
                            <<D1(9), I(32), D1(51)>>,
                            <<D1(3), D1(42), D1(-5), D1(54)>>)
    => result.bii_overall = I(5) /\ result.bii_grade = "C-"

\* C5: with consumption_spending_percent exactly 0, layer 4 is 0.0 whatever
\* productive_spending_percent is, nothing is raised, and the record that
\* calculate_bii returns is complete and holds 0.0 for layer 4.
C5_ZeroConsumptionScoresZero ==
    inputs.consumption_spending_percent = Zero =>
        /\ pc # "raised"
        /\ layer4 # Unset => layer4 = Zero
        /\ pc = "done" =>
              /\ result.layer4_expenditure_efficiency = Zero
              /\ \A key \in ScoreKeys : InRange(result[key])
              /\ result.bii_grade # ""

\* C5 witness: a call with zero consumption and a huge productive share
\* has returned.
C5_Witness ==
    /\ pc = "done"
    /\ inputs.consumption_spending_percent = Zero
    /\ inputs.productive_spending_percent = I(Extreme)
    /\ result.layer4_expenditure_efficiency = Zero

\* The weight key of each layer, as paired in the sum of calculate_bii.
WeightKey ==
    << "fiscal_transparency", "revenue_stability", "debt_health",
       "expenditure_efficiency", "private_sector", "trade_integration",
       "climate_resilience", "digital_readiness", "human_impact" >>

RECURSIVE SumWeights(_)
SumWeights(keys) ==
    IF keys = {} THEN Zero
    ELSE LET k == CHOOSE x \in keys : TRUE
         IN  Add(LAYER_WEIGHTS[k], SumWeights(keys \ {k}))

RECURSIVE WeightedSum(_)
WeightedSum(k) ==
    IF k = 0 THEN Zero
    ELSE Add(WeightedSum(k - 1),
             Mul(LayerLocal(k), LAYER_WEIGHTS[WeightKey[k]]))

\* C10: nine weights, one per layer, each strictly between 0 and 1, summing
\* to 1; the composite is the sum of each layer score times its own weight.
C10_WeightsAndComposite ==
    /\ Cardinality(DOMAIN LAYER_WEIGHTS) = 9
    /\ DOMAIN LAYER_WEIGHTS = { WeightKey[k] : k \in 1..9 }
    /\ \A key \in DOMAIN LAYER_WEIGHTS :
          Gt(LAYER_WEIGHTS[key], Zero) /\ Lt(LAYER_WEIGHTS[key], I(1))
    /\ SumWeights(DOMAIN LAYER_WEIGHTS) = I(1)
    /\ bii_overall # Unset => bii_overall = WeightedSum(9)

\* C10 witness: the composite has been computed from layer scores that
\* differ from one another, so that pairing a weight with the wrong layer
\* would show.
C10_Witness ==
    /\ pc = "done"
    /\ layer2 # layer3
    /\ layer1 # layer9
    /\ bii_overall = WeightedSum(9)

------------------------------------------------------------------------------
(* Properties of layer 2, checked under SpecLayer2.                        *)

\* C3: for inputs in their documented ranges the three summands total at
\* most 1.0, so the score before the clamp lies in [0,10] and is 10 only
\* with all three inputs at full marks.
C3_Layer2SummandsWithinOne ==
    call.fn = "layer2" =>
        LET c == call.contributions
        IN  /\ Le(Add(Add(c[1], c[2]), c[3]), I(1))
            /\ InRange(call.score)
            /\ call.score = Ten =>
                  /\ call.non_oil_percent = I(100)
                  /\ call.tax_base_score = Ten
                  /\ call.collection_efficiency = Ten

------------------------------------------------------------------------------
(* Properties of layer 3, checked under SpecLayer3.                        *)

\* The line through (x0, y0) and (x1, y1), at x.
Linear(x0, y0, x1, y1, x) ==
    Add(y0, Mul(Sub(x, x0), Div(Sub(y1, y0), Sub(x1, x0))))

\* C4, as claimed: 9.0 below 60; from 7.0 at 60 to 5.0 at 75; from 5.0 at
\* 75 to 2.0 at 85; from 85 upward a descent that starts at 2.0.
C4_BaseScoreMeetsAtEightyFive ==
    call.fn = "layer3" =>
        LET d == call.debt_to_gdp
            b == call.base_score
        IN  /\ Lt(d, I(60)) => b = I(9)
            /\ Le(I(60), d) /\ Lt(d, I(75)) =>
                  b = Linear(I(60), I(7), I(75), I(5), d)
            /\ Le(I(75), d) /\ Lt(d, I(85)) =>
                  b = Linear(I(75), I(5), I(85), I(2), d)
            /\ d = I(85) => b = I(2)
            /\ Gt(d, I(85)) => Lt(b, I(2))

\* C4, as amended: 9.0 below 60; from 7.0 at 60 to 5.0 at 75; from 5.0 at
\* 75 towards 3.0 at 85, so that it stays above 3.0; at 85 the score is
\* 2.0, a drop of one point, and it descends from there.
C4_BaseScoreDropsAtEightyFive ==
    call.fn = "layer3" =>
        LET d == call.debt_to_gdp
            b == call.base_score
        IN  /\ Lt(d, I(60)) => b = I(9)
            /\ Le(I(60), d) /\ Lt(d, I(75)) =>
                  b = Linear(I(60), I(7), I(75), I(5), d)
            /\ Le(I(75), d) /\ Lt(d, I(85)) =>
                  /\ b = Linear(I(75), I(5), I(85), I(3), d)
                  /\ Gt(b, I(3))
            /\ d = I(85) => b = I(2)
            /\ Gt(d, I(85)) => Lt(b, I(2))

\* C4 witness: just below 85 the base score is still 3.5.
C4_Witness ==
    /\ call.fn = "layer3"
    /\ call.debt_to_gdp = R(165, 2)
    /\ call.base_score = R(7, 2)

KnownTrends == { "improving", "stable", "declining" }

\* C6: a call with an unrecognized trend returns what a call with "stable"
\* and the same two numbers returns, and it returns a score.
C6_UnrecognizedTrendIsStable ==
    /\ call.fn = "layer3" /\ call.fiscal_balance_trend \notin KnownTrends =>
          InRange(call.ret)
    /\ /\ call.fn = "layer3" /\ last.fn = "layer3"
       /\ call.fiscal_balance_trend \notin KnownTrends
       /\ last.fiscal_balance_trend = "stable"
       /\ call.debt_to_gdp = last.debt_to_gdp
       /\ call.debt_service_to_revenue = last.debt_service_to_revenue
       => call.ret = last.ret

\* C6 witness: "stable" then "unknown" with the same numbers, where the
\* score is strictly inside (0,10), so that a different adjustment shows.
C6_Witness ==
    /\ call.fn = "layer3" /\ last.fn = "layer3"
    /\ call.fiscal_balance_trend = "unknown"
    /\ last.fiscal_balance_trend = "stable"
    /\ call.debt_to_gdp = last.debt_to_gdp
    /\ call.debt_service_to_revenue = last.debt_service_to_revenue
    /\ Gt(call.ret, Zero) /\ Lt(call.ret, Ten)

\* C8: of two calls, the one with the larger debt_to_gdp has the base
\* score that is not larger.
C8_BaseScoreNonIncreasing ==
    /\ call.fn = "layer3" /\ last.fn = "layer3"
    /\ Le(last.debt_to_gdp, call.debt_to_gdp)
    => Ge(last.base_score, call.base_score)

\* C8 witness: two calls on either side of the breakpoint 85.
C8_Witness ==
    /\ call.fn = "layer3" /\ last.fn = "layer3"
    /\ last.debt_to_gdp = R(165, 2)
    /\ call.debt_to_gdp = I(85)
    /\ Gt(last.base_score, call.base_score)

------------------------------------------------------------------------------
(* Properties of the grader, checked under SpecGrade.                      *)

\* lo <= s < hi
Within(lo, s, hi) == Le(lo, s) /\ Lt(s, hi)

Grades ==
    { "A+", "A", "A-", "B+", "B", "B-", "C+", "C", "C-", "D+", "D", "D-",
      "F" }

\* C7: every score gets exactly the grade of the band it lies in, a band's
\* lower threshold included and its upper threshold excluded.
C7_GradeLadder ==
    call.fn = "grade" =>
        LET s == call.score
            g == call.ret
        IN  /\ g \in Grades
            /\ g = "A+" <=> Ge(s, R(95, 10))
            /\ g = "A"  <=> Within(I(9), s, R(95, 10))
            /\ g = "A-" <=> Within(R(85, 10), s, I(9))
            /\ g = "B+" <=> Within(I(8), s, R(85, 10))
            /\ g = "B"  <=> Within(I(7), s, I(8))
            /\ g = "B-" <=> Within(R(65, 10), s, I(7))
            /\ g = "C+" <=> Within(I(6), s, R(65, 10))
            /\ g = "C"  <=> Within(I(5), s, I(6))
            /\ g = "C-" <=> Within(R(45, 10), s, I(5))
            /\ g = "D+" <=> Within(I(4), s, R(45, 10))
            /\ g = "D"  <=> Within(I(3), s, I(4))
            /\ g = "D-" <=> Within(I(2), s, I(3))
            /\ g = "F"  <=> Lt(s, I(2))

\* C7 witness: a score equal to a threshold, then the score just below it.
C7_Witness ==
    /\ call.fn = "grade" /\ last.fn = "grade"
    /\ last.score = R(45, 10) /\ last.ret = "C-"
    /\ call.score = R(89, 20) /\ call.ret = "D+"

------------------------------------------------------------------------------
(* Properties of layer 7, checked under SpecLayer7.                        *)

\* The breakpoints of budget_score, each with the value claimed at it.
BudgetBreakpoints ==
    { [at |-> R(1, 2), value |-> I(1)],
      [at |-> I(1),    value |-> I(2)],
      [at |-> I(2),    value |-> I(4)] }

\* x lies in the segment that ends just below the breakpoint bp.
SegmentBelow(x, bp) ==
    /\ Lt(x, bp)
    /\ bp = I(1) => Ge(x, R(1, 2))
    /\ bp = I(2) => Ge(x, I(1))

\* C9: the budget score at each breakpoint is the value the segment below
\* it tends to: 1.0, 2.0 and 4.0, and a point of the segment below at
\* distance h from the breakpoint scores exactly 2h less.
C9_BudgetScoreContinuous ==
    \A bp \in BudgetBreakpoints :
        /\ call.fn = "layer7" /\ call.climate_budget_gdp = bp.at =>
              call.budget_score = bp.value
        /\ /\ call.fn = "layer7" /\ last.fn = "layer7"
           /\ call.climate_budget_gdp = bp.at
           /\ SegmentBelow(last.climate_budget_gdp, bp.at)
           => Sub(call.budget_score, last.budget_score) =
                 Mul(I(2), Sub(bp.at, last.climate_budget_gdp))

\* C9 witness: a call just below the breakpoint 1.0, then a call at it.
C9_Witness ==
    /\ call.fn = "layer7" /\ last.fn = "layer7"
    /\ last.climate_budget_gdp = D1(9) /\ last.budget_score = D1(18)
    /\ call.climate_budget_gdp = I(1) /\ call.budget_score = I(2)

------------------------------------------------------------------------------
(* Layer 3: where the adjustments are added.                               *)

\* The debt-service adjustment as the claim words it.
ServiceAdjustment(debt_service_to_revenue) ==
    IF Lt(debt_service_to_revenue, I(15)) THEN I(1)
    ELSE IF Gt(debt_service_to_revenue, I(20)) THEN I(-1)
    ELSE I(0)

\* C14: the score returned is the clamp of the sum of the base score as the
\* chain computed it (floored nowhere), the debt-service adjustment (+1
\* below 15, -1 above 20, 0 from 15 to 20 inclusive) and the trend
\* adjustment; with a negative base score the sum is below the sum of the
\* adjustments alone.
C14_AdjustmentsOnUnflooredBase ==
    call.fn = "layer3" =>
        LET adj == Add(ServiceAdjustment(call.debt_service_to_revenue),
                       IF call.fiscal_balance_trend = "improving" THEN I(1)
                       ELSE IF call.fiscal_balance_trend = "declining"
                            THEN I(-1)
                       ELSE I(0))
            total == Add(call.base_score, adj)
        IN  /\ call.ret = PyMax(I(0), PyMin(I(10), total))
            /\ Lt(call.base_score, I(0)) /\ Gt(total, I(0)) =>
                   Lt(call.ret, adj)

\* C14 witness: a debt_to_gdp above 100 (negative base score), a debt
\* service below 15 and an improving trend: +2 of adjustments, a score
\* strictly between 0 and 2.
C14_Witness ==
    /\ call.fn = "layer3"
    /\ Lt(call.base_score, I(0))
    /\ Lt(call.debt_service_to_revenue, I(15))
    /\ call.fiscal_balance_trend = "improving"
    /\ Gt(call.ret, I(0)) /\ Lt(call.ret, I(2))

------------------------------------------------------------------------------
(* Layer 1: the capped audit penalty.                                      *)

\* C15: the score is 5, plus 5 when the budget was on time, minus
\* min(audit_delay_years, 4), clamped to [0,10]; from a delay of 4 years on
\* it is 6 when on time and 1 when not, whatever the delay; one more year
\* of delay below the cap costs one point; with a delay >= 0 an on-time
\* budget scores at least 6.
C15_Layer1CappedPenalty ==
    /\ call.fn = "layer1" =>
          LET y == call.audit_delay_years
              expected == 5 + (IF call.budget_on_time THEN 5 ELSE 0)
                            - (IF y < 4 THEN y ELSE 4)
          IN  /\ call.ret = I(IF expected < 0 THEN 0
                              ELSE IF expected > 10 THEN 10 ELSE expected)
              /\ y >= 4 => call.ret = (IF call.budget_on_time THEN I(6)
                                       ELSE I(1))
              /\ call.budget_on_time /\ y >= 0 => Ge(call.ret, I(6))
    /\ /\ call.fn = "layer1" /\ last.fn = "layer1"
       /\ call.budget_on_time = last.budget_on_time
       => /\ call.audit_delay_years >= 4 /\ last.audit_delay_years >= 4
             => call.ret = last.ret
          /\ /\ last.audit_delay_years >= 0
             /\ call.audit_delay_years = last.audit_delay_years + 1
             /\ call.audit_delay_years <= 4
             => call.ret = Sub(last.ret, I(1))

\* C15 witness: an on-time budget with a delay of 4 years, then one with a
\* delay above twice the cap, both scored 6.
C15_Witness ==
    /\ call.fn = "layer1" /\ last.fn = "layer1"
    /\ call.budget_on_time /\ last.budget_on_time
    /\ last.audit_delay_years = 4 /\ call.audit_delay_years > 8
    /\ call.ret = I(6) /\ last.ret = I(6)

------------------------------------------------------------------------------
(* Two calls of calculate_bii compared, under SpecTwice.                   *)

\* The fields of LayerInputs grouped by layer, as the dataclass groups them.
LayerFields(k) ==
    CASE k = 1 -> { "budget_on_time", "audit_delay_years" }
      [] k = 2 -> { "non_oil_revenue_percent", "tax_base_breadth_score",
                    "collection_efficiency" }
      [] k = 3 -> { "debt_to_gdp", "debt_service_to_revenue",
                    "fiscal_balance_trend" }
      [] k = 4 -> { "productive_spending_percent",
                    "consumption_spending_percent" }
      [] k = 5 -> { "ease_of_business_rank", "sme_support_delivery_rate",
                    "forex_access_score" }
      [] k = 6 -> { "non_oil_exports_growth", "caricom_integration_score",
                    "export_diversification_index" }
      [] k = 7 -> { "climate_budget_gdp_percent", "green_projects_count",
                    "adaptation_funding_score" }
      [] k = 8 -> { "ict_budget_percent", "egov_adoption_percent",
                    "digital_literacy_score" }
      [] k = 9 -> { "inflation_rate", "unemployment_rate",
                    "real_wage_growth", "food_security_score" }

\* The key of layer k's score in the result record.
LayerKey(k) ==
    CASE k = 1 -> "layer1_fiscal_transparency"
      [] k = 2 -> "layer2_revenue_stability"
      [] k = 3 -> "layer3_debt_health"
      [] k = 4 -> "layer4_expenditure_efficiency"
      [] k = 5 -> "layer5_private_sector"
      [] k = 6 -> "layer6_trade_integration"
      [] k = 7 -> "layer7_climate_resilience"
      [] k = 8 -> "layer8_digital_readiness"
      [] k = 9 -> "layer9_human_impact"

AgreeOn(k, a, b) == \A f \in LayerFields(k) : a[f] = b[f]

\* Both calls have returned a result record.
BothReturned ==
    /\ call.fn = "calculate_bii" /\ pc = "done"
    /\ last.fn = "calculate_bii" /\ last.pc = "done"

\* C11: when two calls were passed records that agree on the fields of
\* layer k, the two result records hold the same score for layer k,
\* whatever the other fields of the two records are.
C11_LayerIndependence ==
    BothReturned =>
        \A k \in 1..9 :
            AgreeOn(k, call.inputs, last.inputs) =>
                result[LayerKey(k)] = last.ret[LayerKey(k)]

\* C11 witness: two calls returned, their records equal on layer 5 and
\* different on layer 4, with different scores for layer 4 and the same
\* score for layer 5, none of the two saturated.
C11_Witness ==
    /\ BothReturned
    /\ AgreeOn(5, call.inputs, last.inputs)
    /\ ~AgreeOn(4, call.inputs, last.inputs)
    /\ result.layer4_expenditure_efficiency
          # last.ret.layer4_expenditure_efficiency
    /\ result.layer5_private_sector = last.ret.layer5_private_sector
    /\ Gt(result.layer5_private_sector, Zero)
    /\ Lt(result.layer5_private_sector, Ten)

\* C13: throughout a call the record of the call is the record that was
\* passed, and of two calls passed equal records the second returns the
\* result record the first returned.
C13_RepeatedCallSameResult ==
    /\ call.fn = "calculate_bii" => inputs = call.inputs
    /\ BothReturned /\ call.inputs = last.inputs => result = last.ret

\* C13 witness: the example record passed twice, both calls returned, with
\* a composite that is not 0.
C13_Witness ==
    /\ BothReturned
    /\ call.inputs = last.inputs
    /\ inputs = call.inputs
    /\ result = last.ret
    /\ result.bii_grade # ""
    /\ Gt(result.bii_overall, Zero)

------------------------------------------------------------------------------
(* The order of the nine layer assignments, under SpecAnyOrder.            *)

\* C12: a call that made the nine layer assignments in whatever order
\* returns the result record (nine scores, composite, grade) that the call
\* in the order of the source returned for the same record; at every point
\* of a call the composite is assigned only when all nine layer scores
\* are, the grade only when the composite is, and the result record only
\* when the grade is.
C12_AnyOrderSameResult ==
    /\ BothReturned /\ call.inputs = last.inputs => result = last.ret
    /\ bii_overall # Unset => \A k \in 1..9 : LayerLocal(k) # Unset
    /\ grade # "" => bii_overall # Unset
    /\ result # NoResult => grade # ""

\* C12 witness: after a call in the order of the source, a call with the
\* same record that made the assignments in another order has returned the
\* same record.
C12_Witness ==
    /\ BothReturned
    /\ last.order = "source" /\ ~last.reordered
    /\ call.order = "any" /\ call.reordered
    /\ call.inputs = last.inputs
    /\ result = last.ret
    /\ result.bii_grade # ""

====
